---- MODULE Spec2Model ----
(***************************************************************************)
(* State-machine model of the GitHub "topic:microservices" crawler.        *)
(*                                                                         *)
(*   src/crawler_refactored.py : search_count, iter_search_pages,          *)
(*       split_window_if_needed, download_zip, rate_limit_sleep, crawl     *)
(*                                                                         *)
(* Datetimes are integers counting ticks since 2020-01-01 00:00; one day   *)
(* is TicksPerDay ticks.  The GitHub API is the environment: every request *)
(* draws its response from Responses, the total_count it reports is the    *)
(* stable per-day oracle dayCount summed over the queried days, and the    *)
(* number of items on a page is the API's choice.                          *)
(***************************************************************************)
EXTENDS Integers, Sequences, FiniteSets, TLC

(***************************************************************************)
(* Program constants                                                        *)
(***************************************************************************)
PER_PAGE == 100
DELAY_BETWEEN_PAGES == 5
MAX_RESULTS_PER_QUERY == 1000
DATE_STEP_DAYS == 182
\* safety margin added to the rate-limit wait (rate_limit_sleep)
RATE_LIMIT_MARGIN == 3

(***************************************************************************)
(* Bounds of the model                                                      *)
(***************************************************************************)
\* longest window (in days past its start) handed to the partitioner alone
MaxSpan == 7
\* days of a window whose own count may exceed the cap
MaxOverCap == 1
\* stands for the interpreter's recursion limit (sys.getrecursionlimit())
RecursionLimit == 16
\* items the API hands out over one run
MaxItems == 2
\* last page of a window's results on which the API hands out items
MaxItemPage == 2

(***************************************************************************)
(* datetime / timedelta arithmetic                                          *)
(***************************************************************************)
\* timedelta resolution: a day is 2^13 * 10546875 microseconds, so a day of
\* 2^13 ticks halves exactly as often as a day of microseconds does.
TicksPerDay == 8192

Days(n) == n * TicksPerDay

Max2(a, b) == IF a >= b THEN a ELSE b
Min2(a, b) == IF a <= b THEN a ELSE b

\* timedelta / 2: true division rounded to the resolution, half to even
HalfRoundEven(x) ==
    LET q == x \div 2
        r == x % 2
    IN  IF r = 0 THEN q ELSE IF q % 2 = 0 THEN q ELSE q + 1

\* f"{t:%Y-%m-%d}": the calendar day of a datetime, its time of day dropped
DateStr(t) == t \div TicksPerDay

\* the created:<start>..<end> part of the search query
\* the days of the months of 2020, the year day 0 lies in
MonthLengths == <<31, 29, 31, 30, 31, 30, 31, 31, 30, 31, 30, 31>>

RECURSIVE MonthAndDay(_, _)
MonthAndDay(day, month) ==
    IF day < MonthLengths[month] THEN <<month, day + 1>>
    ELSE MonthAndDay(day - MonthLengths[month], month + 1)

\* the %m-%d of a day of 2020 counted from 2020-01-01
CalendarDate(day) == MonthAndDay(day, 1)

Query(start, end) == <<DateStr(start), DateStr(end)>>

\* the calendar days an inclusive range start..end of a query names
QueryDays(q) == q[1] .. q[2]

CeilDiv(a, b) == (a + b - 1) \div b

(***************************************************************************)
(* State                                                                    *)
(***************************************************************************)
VARIABLES
    start_date, finish_date,   \* crawl's arguments
    dayCount,                  \* the API's stable count oracle: day -> repositories created
    catalog,                   \* the repositories the API's result pages are made of
    pc,                        \* position of the single flow of control
    abort_cause,               \* the exception that ended the run, "" if none
    current_start, current_end,
    stack,                     \* frames of split_window_if_needed, innermost last
    retval,                    \* value being returned by the innermost call
    windows, widx,             \* crawl's leaf windows and the for-loop's position
    period_downloaded, period_failed, page_count_estimate,
    total_downloaded, total_failed,
    rows,                      \* data rows written to the CSV sink
    csv_open,                  \* the with-block's file is open
    summary_rows,
    xlsx_written,              \* number of times the summary was saved
    it,                        \* the iter_search_pages generator's locals
    yielded,                   \* items the generators have yielded, per top-level window
    searched,                  \* per top-level window, the leaf windows handed to
                               \* iter_search_pages and the page requests sent for each
    served,                    \* items the API has put into its responses so far
    last_req, last_resp,       \* the last request sent and its response
    last_sleep,                \* seconds slept by rate_limit_sleep for it
    retry,                     \* the Retry state of the GET the session's adapter is on
    max_depth                  \* deepest split_window_if_needed recursion so far

splitVars == <<stack, retval, max_depth>>
httpVars == <<last_req, last_resp, last_sleep, retry>>
loopVars == <<current_start, current_end, windows, widx>>
countVars == <<period_downloaded, period_failed, page_count_estimate,
               total_downloaded, total_failed>>
sinkVars == <<rows, csv_open, summary_rows, xlsx_written>>
inputVars == <<start_date, finish_date, dayCount, catalog>>
vars == <<inputVars, pc, abort_cause, loopVars, splitVars, countVars, sinkVars,
          it, yielded, searched, served, httpVars>>

\* no call has returned / the value a call returned
NoVal == [has |-> FALSE, val |-> <<>>]
Returned(v) == [has |-> TRUE, val |-> v]

NoReq == [kind |-> "none", q |-> <<0, 0>>, page |-> 0, idx |-> 0]
NoResp == [status |-> 0, has_reset |-> FALSE, reset |-> 0, remaining |-> -1]

(***************************************************************************)
(* The API                                                                  *)
(***************************************************************************)
\* X-RateLimit-Reset of a throttling response, in seconds from now: the
\* reset lies ahead, or has already passed when the response is handled
ResetOffsets == {30, -10}

OkResp == [status |-> 200, has_reset |-> FALSE, reset |-> 0, remaining |-> -1]
\* 403, X-RateLimit-Remaining: 0, X-RateLimit-Reset: now + reset_in
ThrottledResp(reset_in) ==
    [status |-> 403, has_reset |-> TRUE, reset |-> reset_in, remaining |-> 0]
\* any other failure of a request (4xx, exhausted retries, network error)
ErrorResp == [status |-> 404, has_reset |-> FALSE, reset |-> 0, remaining |-> -1]

Responses == {OkResp, ErrorResp} \cup {ThrottledResp(r) : r \in ResetOffsets}

Throttled(resp) == resp.status = 403 /\ resp.remaining = 0

RECURSIVE SumCounts(_, _)
SumCounts(f, S) ==
    IF S = {} THEN 0
    ELSE LET d == CHOOSE x \in S : TRUE
         IN  f[d] + SumCounts(f, S \ {d})

\* total_count the API reports for a query: repositories created on its days
TotalCount(q) == SumCounts(dayCount, QueryDays(q) \cap DOMAIN dayCount)

\* rate_limit_sleep: seconds slept for a response (0: no sleep)
rate_limit_sleep(resp) ==
    IF resp.status = 403 /\ resp.has_reset
    THEN Max2(0, resp.reset + RATE_LIMIT_MARGIN)
    ELSE 0

\* resp.raise_for_status()
RaisesForStatus(resp) == resp.status >= 400

\* make_session, lines 50-55: Retry(total=5, backoff_factor=1.2,
\* status_forcelist=[429, 500, 502, 503, 504], allowed_methods=["GET"])
RETRY_TOTAL == 5
\* backoff_factor, in tenths of a second
BACKOFF_FACTOR == 12
status_forcelist == {429, 500, 502, 503, 504}

\* the Retry object a request starts with: the retries left, the statuses
\* answered so far, the backoffs slept so far in tenths of a second
NewRetry == [total |-> RETRY_TOTAL, history |-> <<>>, delays |-> <<>>]

\* SESSION.get + rate_limit_sleep, as every request of the module does; the
\* response is the one the adapter ends on, and each request has its own Retry
Send(req, resp) ==
    /\ last_req' = req
    /\ last_resp' = resp
    /\ last_sleep' = rate_limit_sleep(resp)
    /\ retry' = retry

(***************************************************************************)
(* Repository items of a search response                                    *)
(***************************************************************************)
TOPIC == "microservices"

\* strings the program takes apart are sequences of characters
Chars_main == <<"m", "a", "i", "n">>
Chars_zip == <<".", "z", "i", "p">>

\* a repository as the API describes it: default_branch and topics may be
\* missing from the item; has_keys tells that the keys read by subscript
\* (owner.login, name, full_name, clone_url) are there
Repo(full_name, has_branch, default_branch, has_topics, topics) ==
    [full_name |-> full_name,
     has_branch |-> has_branch, default_branch |-> default_branch,
     has_topics |-> has_topics, topics |-> topics, has_keys |-> TRUE]

\* an ordinary result of the tag-filtered search
TaggedRepo == Repo(<<"o", "/", "r">>, TRUE, Chars_main, TRUE, {TOPIC})

\* a malformed result: item["clone_url"] raises KeyError
KeylessRepo == [TaggedRepo EXCEPT !.has_keys = FALSE]

\* results that differ in name, branch and declared topics: the default
\* branch missing or empty, a branch with a slash, the topics missing,
\* empty, or without the tag
Repos ==
    {TaggedRepo,
     Repo(<<"o", "/", "r">>, FALSE, <<>>, TRUE, {TOPIC, "docker"}),
     Repo(<<"o", "/", "r">>, TRUE, <<"f", "/", "x">>, FALSE, {}),
     Repo(<<"o", "/", "s">>, TRUE, <<>>, TRUE, {}),
     Repo(<<"o", "/", "s">>, TRUE, <<"d", "e", "v">>, TRUE, {"docker"})}

\* str.replace for single characters
Replace(s, old, new) == [i \in 1 .. Len(s) |-> IF s[i] = old THEN new ELSE s[i]]

\* item.get("default_branch") or "main"
DefaultBranch(repo) ==
    IF repo.has_branch /\ repo.default_branch # <<>> THEN repo.default_branch
    ELSE Chars_main

\* item.get("topics", [])
Topics(repo) == IF repo.has_topics THEN repo.topics ELSE {}

\* the archive's name also counts the archives written before it
ZipName_numbered(full_name, default_branch) ==
    Replace(full_name, "/", "#") \o <<"@">> \o default_branch
        \o <<"-", ToString(Len(rows))>> \o Chars_zip

\* zip_name = f"{full_name.replace('/', '#')}@{default_branch}.zip"
ZipName(full_name, default_branch) ==
    Replace(full_name, "/", "#") \o <<"@">> \o default_branch \o Chars_zip

(***************************************************************************)
(* split_window_if_needed                                                   *)
(***************************************************************************)
Window(s, e) == [start |-> s, end |-> e]

Frame(s, e) == [start |-> s, end |-> e, midpoint |-> 0, left |-> <<>>, phase |-> "count"]

\* the cap compared against is off by two pages
SafeToFetch_loose(cnt) == cnt <= MAX_RESULTS_PER_QUERY + 2 * PER_PAGE

\* cnt <= MAX_RESULTS_PER_QUERY: the window is safe to fetch
SafeToFetch(cnt) == cnt <= MAX_RESULTS_PER_QUERY

\* the midpoint falls a day short
Midpoint_day_early(s, e) == s + HalfRoundEven(e - s) - Days(1)

\* midpoint = start + (end - start) / 2
Midpoint(s, e) == s + HalfRoundEven(e - s)

\* the right half starts at the midpoint itself: the day is queried twice
RightStart_same_day(mid) == mid

\* midpoint + timedelta(days=1)
RightStart(mid) == mid + Days(1)

\* the halves are joined right before left
Concat_reversed(left, right) == right \o left

\* left + right
Concat(left, right) == left \o right

Top == stack[Len(stack)]
Pop == SubSeq(stack, 1, Len(stack) - 1)

InSplit == pc \in {"split", "partition"}

\* the exception leaves crawl without the sink being closed
Raise_sink_left_open(cause) ==
    /\ abort_cause' = cause
    /\ stack' = <<>>
    /\ retval' = NoVal
    /\ pc' = IF pc = "partition" THEN "raised" ELSE "aborted"
    /\ csv_open' = csv_open

\* the exception is caught where it is raised and the run carries on
Raise_swallowed(cause) ==
    /\ abort_cause' = cause
    /\ UNCHANGED <<stack, retval, pc, csv_open>>

\* an exception leaves every frame; inside crawl the with-block closes the sink
Raise(cause) ==
    /\ abort_cause' = cause
    /\ stack' = <<>>
    /\ retval' = NoVal
    /\ IF pc = "partition"
       THEN pc' = "raised" /\ csv_open' = csv_open
       ELSE pc' = "aborted" /\ csv_open' = FALSE

\* a recursive call: push the callee's frame, or RecursionError at the limit
Call(frames, s, e) ==
    IF Len(frames) >= RecursionLimit
    THEN Raise("RecursionError") /\ UNCHANGED max_depth
    ELSE /\ stack' = Append(frames, Frame(s, e))
         /\ retval' = NoVal
         /\ max_depth' = Max2(max_depth, Len(frames))
         /\ UNCHANGED <<pc, abort_cause, csv_open>>

\* lines 126-131: count the window; return it, or split and recurse left
SplitCount ==
    /\ InSplit /\ stack # <<>> /\ ~retval.has /\ Top.phase = "count"
    /\ \E resp \in Responses :
        /\ Send([kind |-> "count", q |-> Query(Top.start, Top.end), page |-> 0, idx |-> 0], resp)
        /\ IF RaisesForStatus(resp)
           THEN Raise("HTTPError") /\ UNCHANGED max_depth
           ELSE LET cnt == TotalCount(Query(Top.start, Top.end))
                    mid == Midpoint(Top.start, Top.end)
                IN  IF SafeToFetch(cnt)
                    THEN /\ retval' = Returned(<<Window(Top.start, Top.end)>>)
                         /\ stack' = Pop
                         /\ UNCHANGED <<pc, abort_cause, csv_open, max_depth>>
                    ELSE Call(Append(Pop, [Top EXCEPT !.midpoint = mid, !.phase = "left"]),
                              Top.start, mid)
    /\ UNCHANGED <<inputVars, loopVars, countVars, rows, summary_rows, xlsx_written,
                   it, yielded, searched, served>>

\* lines 131-133: a recursive call returned into its caller's frame
SplitReturn ==
    /\ InSplit /\ stack # <<>> /\ retval.has
    /\ IF Top.phase = "left"
       THEN Call(Append(Pop, [Top EXCEPT !.left = retval.val, !.phase = "right"]),
                 RightStart(Top.midpoint), Top.end)
       ELSE /\ retval' = Returned(Concat(Top.left, retval.val))
            /\ stack' = Pop
            /\ UNCHANGED <<pc, abort_cause, csv_open, max_depth>>
    /\ UNCHANGED <<inputVars, loopVars, countVars, rows, summary_rows, xlsx_written,
                   it, yielded, searched, served, httpVars>>

\* the outermost call returned to a caller that only partitions
PartitionReturned ==
    /\ pc = "partition" /\ stack = <<>> /\ retval.has
    /\ windows' = retval.val
    /\ retval' = NoVal
    /\ pc' = "returned"
    /\ UNCHANGED <<inputVars, abort_cause, current_start, current_end, widx, stack,
                   max_depth, countVars, sinkVars, it, yielded, searched, served, httpVars>>

(***************************************************************************)
(* The partitioner on its own: split_window_if_needed(W) for a window W     *)
(* at day granularity and a stable oracle over W's days.                    *)
(***************************************************************************)
\* per-day creation counts the oracle is drawn from
DayCounts == {0, 600, 1100}

NoIter == [active |-> FALSE]

InitRest ==
    /\ abort_cause = ""
    /\ retval = NoVal
    /\ windows = <<>> /\ widx = 0
    /\ period_downloaded = 0 /\ period_failed = 0 /\ page_count_estimate = 0
    /\ total_downloaded = 0 /\ total_failed = 0
    /\ rows = <<>> /\ summary_rows = <<>> /\ xlsx_written = 0
    /\ it = NoIter
    /\ yielded = <<>> /\ served = 0
    /\ searched = <<>>
    /\ last_req = NoReq /\ last_resp = NoResp /\ last_sleep = 0
    /\ retry = NewRetry
    /\ max_depth = 0

\* days of a full top-level window on which repositories were created:
\* its ends and the days around its midpoint
FullWindowHotDays ==
    {0, 1, DATE_STEP_DAYS \div 2 - 1, DATE_STEP_DAYS \div 2, DATE_STEP_DAYS \div 2 + 1,
     DATE_STEP_DAYS}

\* a short window with any oracle over its days, or a full top-level window
\* with an oracle over a few of its days
InitPartition ==
    /\ start_date = Days(0)
    /\ \/ /\ finish_date \in {Days(n) : n \in 0 .. MaxSpan}
          /\ dayCount \in [DateStr(start_date) .. DateStr(finish_date) -> DayCounts]
       \/ /\ finish_date = Days(DATE_STEP_DAYS)
          /\ dayCount \in [FullWindowHotDays -> DayCounts]
    /\ Cardinality({d \in DOMAIN dayCount : ~SafeToFetch(dayCount[d])}) <= MaxOverCap
    /\ catalog = {TaggedRepo}
    /\ pc = "partition"
    /\ current_start = start_date /\ current_end = finish_date
    /\ stack = <<Frame(start_date, finish_date)>>
    /\ csv_open = FALSE
    /\ InitRest

NextPartition == SplitCount \/ SplitReturn \/ PartitionReturned

SpecPartition == InitPartition /\ [][NextPartition]_vars

\* days of the year 2020, counted from 2020-01-01, on which the scenario's
\* repositories were created: the window's ends and the days around its middle
ScenarioHotDays == {0, 89, 90, 91, 181}

ScenarioCounts == {0, 500, 750}

\* split_window_if_needed(2020-01-01, 2020-06-30) when the window holds 1500
\* repositories, however they spread over the days
InitScenario ==
    /\ start_date = Days(0)
    /\ finish_date = Days(181)
    /\ dayCount \in [ScenarioHotDays -> ScenarioCounts]
    /\ TotalCount(Query(start_date, finish_date)) = 1500
    /\ catalog = {TaggedRepo}
    /\ pc = "partition"
    /\ current_start = start_date /\ current_end = finish_date
    /\ stack = <<Frame(start_date, finish_date)>>
    /\ csv_open = FALSE
    /\ InitRest

SpecScenario == InitScenario /\ [][NextPartition]_vars

(***************************************************************************)
(* iter_search_pages and download_zip                                       *)
(***************************************************************************)
\* pages = math.ceil(min(total_count, MAX_RESULTS_PER_QUERY) / PER_PAGE)
PagesFor(total_count) == CeilDiv(Min2(total_count, MAX_RESULTS_PER_QUERY), PER_PAGE)

\* how many items the API may put on a page of a query: no more than the
\* results left for that page, a page's size, and what the run may still
\* yield; pages past MaxItemPage come back empty
ItemsOnPage(q, page) ==
    LET left == Min2(TotalCount(q), MAX_RESULTS_PER_QUERY) - (page - 1) * PER_PAGE
    IN  IF page > MaxItemPage THEN {0}
        ELSE 0 .. Min2(Min2(Max2(left, 0), PER_PAGE), MaxItems - served)

\* the pages the API may return for a page of a query: sequences of
\* repositories of the catalog
PagesOfItems(q, page) ==
    UNION {[1 .. n -> catalog] : n \in ItemsOnPage(q, page)}

\* the idx-th item of a page of a window's results, in the API's order
Item(q, page, idx, repo) == [q |-> q, page |-> page, idx |-> idx, repo |-> repo]

\* the page loop's locals; delay is the inter-page delay slept between the
\* request of the page before and the request of this page, requested the
\* page numbers of the requests sent for the window so far
Iter(q, pages, page, items, delay, requested) ==
    [active |-> TRUE, q |-> q, pages |-> pages, page |-> page, items |-> items, idx |-> 0,
     delay |-> delay, requested |-> requested]

CurWindow == windows[widx]

\* an exception propagating out of crawl's with-block
Abort(cause) == Raise(cause) /\ UNCHANGED max_depth

(***************************************************************************)
(* crawl                                                                    *)
(***************************************************************************)
\* the window is not clipped to finish_date
CurrentEnd_unclipped(cs) == cs + Days(DATE_STEP_DAYS)

\* min(current_start + timedelta(days=DATE_STEP_DAYS), finish_date)
CurrentEnd(cs) == Min2(cs + Days(DATE_STEP_DAYS), finish_date)

\* the next window starts on the day the one before ends on
NextStart_same_day(ce) == ce

\* current_end + timedelta(days=1)
NextStart(ce) == ce + Days(1)

\* lines 165-168: the while test holds; clip the window and partition it
CrawlNextWindow ==
    /\ pc = "loop" /\ current_start <= finish_date
    /\ current_end' = CurrentEnd(current_start)
    /\ stack' = <<Frame(current_start, CurrentEnd(current_start))>>
    /\ retval' = NoVal
    /\ pc' = "split"
    /\ UNCHANGED <<inputVars, abort_cause, current_start, windows, widx, max_depth,
                   countVars, sinkVars, it, yielded, searched, served, httpVars>>

\* the window's counters carry over from the window before
ResetPeriod_carry_over ==
    UNCHANGED <<period_downloaded, period_failed, page_count_estimate>>

\* lines 169-171
ResetPeriod ==
    /\ period_downloaded' = 0
    /\ period_failed' = 0
    /\ page_count_estimate' = 0

\* lines 168-171: the partition is back; reset the window's counters
CrawlGotWindows ==
    /\ pc = "split" /\ stack = <<>> /\ retval.has
    /\ windows' = retval.val
    /\ retval' = NoVal
    /\ widx' = 1
    /\ ResetPeriod
    /\ yielded' = Append(yielded, 0)
    /\ searched' = Append(searched, <<>>)
    /\ pc' = "leaf"
    /\ UNCHANGED <<inputVars, abort_cause, current_start, current_end, stack, max_depth,
                   total_downloaded, total_failed, sinkVars, it, served, httpVars>>

\* lines 173-176: next leaf window; estimate its pages from a fresh count
LeafCount ==
    /\ pc = "leaf" /\ widx <= Len(windows)
    /\ \E resp \in Responses :
        /\ Send([kind |-> "count", q |-> Query(CurWindow.start, CurWindow.end),
                 page |-> 0, idx |-> 0], resp)
        /\ IF RaisesForStatus(resp)
           THEN Abort("HTTPError") /\ UNCHANGED page_count_estimate
           ELSE /\ page_count_estimate' = page_count_estimate
                      + PagesFor(TotalCount(Query(CurWindow.start, CurWindow.end)))
                /\ pc' = "first_page"
                /\ UNCHANGED <<abort_cause, csv_open, stack, retval, max_depth>>
    /\ UNCHANGED <<inputVars, loopVars, period_downloaded, period_failed,
                   total_downloaded, total_failed, rows, summary_rows, xlsx_written,
                   it, yielded, searched, served>>

\* lines 96-104: the generator's first request learns total_count and page 1
IterFirstPage ==
    /\ pc = "first_page"
    /\ LET q == Query(CurWindow.start, CurWindow.end)
       IN  \E resp \in Responses :
             /\ Send([kind |-> "page", q |-> q, page |-> 1, idx |-> 0], resp)
             /\ IF RaisesForStatus(resp)
                THEN Abort("HTTPError") /\ UNCHANGED <<it, served>>
                ELSE \E items \in PagesOfItems(q, 1) :
                       /\ it' = Iter(q, PagesFor(TotalCount(q)), 1, items, 0, <<1>>)
                       /\ served' = served + Len(items)
                       /\ pc' = "items"
                       /\ UNCHANGED <<abort_cause, csv_open, stack, retval, max_depth>>
             /\ searched' = [searched EXCEPT ![Len(searched)] =
                                 Append(@, [q |-> q, requests |-> 1])]
    /\ UNCHANGED <<inputVars, loopVars, countVars, rows, summary_rows, xlsx_written,
                   yielded>>

\* lines 107-108, 117-118: yield the next item of the current page
Yield ==
    /\ it' = [it EXCEPT !.items = Tail(@), !.idx = @ + 1]
    /\ yielded' = [yielded EXCEPT ![Len(yielded)] = @ + 1]
    /\ UNCHANGED searched

\* lines 184-189, 193, 198: the fields of a CSV row
Row(item, status) ==
    [item |-> item, status |-> status,
     default_branch |-> DefaultBranch(item.repo),
     topics |-> Topics(item.repo),
     zip_name |-> ZipName(item.repo.full_name, DefaultBranch(item.repo))]

\* lines 193-195: the download went through
TryBody(item) ==
    /\ rows' = Append(rows, Row(item, "downloaded"))
    /\ period_downloaded' = period_downloaded + 1
    /\ total_downloaded' = total_downloaded + 1
    /\ UNCHANGED <<period_failed, total_failed>>

\* the failure is logged to the sink but not counted
ExceptHandler_uncounted(item) ==
    /\ rows' = Append(rows, Row(item, "error"))
    /\ UNCHANGED <<period_failed, total_failed, period_downloaded, total_downloaded>>

\* lines 196-200: except Exception
ExceptHandler(item) ==
    /\ rows' = Append(rows, Row(item, "error"))
    /\ period_failed' = period_failed + 1
    /\ total_failed' = total_failed + 1
    /\ UNCHANGED <<period_downloaded, total_downloaded>>

\* download_zip without r.raise_for_status(): an error body is saved as the archive
DownloadRaises_unchecked(resp) == FALSE

\* lines 139-147: download_zip raises when the response is an error
DownloadRaises(resp) == RaisesForStatus(resp)

\* only an item that declares the tag is downloaded
Eligible_tagged(repo) == TOPIC \in Topics(repo)

\* line 185: the declared topics are read for the row only, no item is
\* left out on their account
Eligible(repo) == TRUE

\* lines 179-200: one turn of the item loop: yield, download, record
ProcessItem ==
    /\ pc = "items" /\ it.items # <<>>
    /\ Yield
    /\ LET item == Item(it.q, it.page, it.idx + 1, Head(it.items))
       IN  IF ~item.repo.has_keys
           THEN /\ Abort("KeyError")
                /\ UNCHANGED <<httpVars, rows, period_downloaded, period_failed,
                               total_downloaded, total_failed>>
           ELSE /\ UNCHANGED <<pc, abort_cause, splitVars, csv_open>>
                /\ IF Eligible(item.repo)
                   THEN \E resp \in Responses :
                          /\ Send([kind |-> "zip", q |-> it.q, page |-> it.page,
                                   idx |-> it.idx + 1], resp)
                          /\ IF DownloadRaises(resp) THEN ExceptHandler(item)
                             ELSE TryBody(item)
                   ELSE UNCHANGED <<httpVars, rows, period_downloaded, period_failed,
                                    total_downloaded, total_failed>>
    /\ UNCHANGED <<inputVars, loopVars, page_count_estimate, summary_rows, xlsx_written,
                   served>>

\* line 119, inside the loop over pages 2..pages: time.sleep follows the
\* items of each page from the second on, none follows the first page's
PageDelay(page) == IF page >= 2 THEN DELAY_BETWEEN_PAGES ELSE 0

\* the loop runs one page past the last
HasNextPage_one_more == it.page <= it.pages

\* line 111: for page in range(2, pages + 1)
HasNextPage == it.page < it.pages

\* lines 111-119: the generator resumes after the page's last item, sleeps
\* if a loop turn is ending, and requests the next page
IterNextPage ==
    /\ pc = "items" /\ it.items = <<>> /\ HasNextPage
    /\ \E resp \in Responses :
         /\ Send([kind |-> "page", q |-> it.q, page |-> it.page + 1, idx |-> 0], resp)
         /\ IF RaisesForStatus(resp)
            THEN Abort("HTTPError") /\ UNCHANGED <<it, served>>
            ELSE \E items \in PagesOfItems(it.q, it.page + 1) :
                   /\ it' = Iter(it.q, it.pages, it.page + 1, items, PageDelay(it.page),
                               Append(it.requested, it.page + 1))
                   /\ served' = served + Len(items)
                   /\ UNCHANGED <<pc, abort_cause, csv_open, stack, retval, max_depth>>
    /\ searched' = [searched EXCEPT ![Len(searched)][Len(searched[Len(searched)])].requests
                                        = @ + 1]
    /\ UNCHANGED <<inputVars, loopVars, countVars, rows, summary_rows, xlsx_written,
                   yielded>>

\* the generator is exhausted: the for loop moves to the next leaf window
IterExhausted ==
    /\ pc = "items" /\ it.items = <<>> /\ ~HasNextPage
    /\ it' = NoIter
    /\ widx' = widx + 1
    /\ pc' = "leaf"
    /\ UNCHANGED <<inputVars, abort_cause, current_start, current_end, windows, splitVars,
                   countVars, sinkVars, yielded, searched, served, httpVars>>

SummaryRow ==
    [start |-> DateStr(current_start), end |-> DateStr(current_end),
     downloaded |-> period_downloaded, pages |-> page_count_estimate,
     failed |-> period_failed]

\* lines 202-212: the window is done; append its summary row and advance
WindowDone ==
    /\ pc = "leaf" /\ widx > Len(windows)
    /\ summary_rows' = Append(summary_rows, SummaryRow)
    /\ current_start' = NextStart(current_end)
    /\ pc' = "loop"
    /\ UNCHANGED <<inputVars, abort_cause, current_end, windows, widx, splitVars,
                   countVars, rows, csv_open, xlsx_written, it, yielded, searched, served, httpVars>>

\* lines 165, 214-220: the while test fails; close the sink, save the summary
CrawlFinish ==
    /\ pc = "loop" /\ ~(current_start <= finish_date)
    /\ csv_open' = FALSE
    /\ xlsx_written' = xlsx_written + 1
    /\ pc' = "done"
    /\ UNCHANGED <<inputVars, abort_cause, loopVars, splitVars, countVars, rows,
                   summary_rows, it, yielded, searched, served, httpVars>>

(***************************************************************************)
(* A run of crawl(start_date, finish_date)                                  *)
(***************************************************************************)
\* short date ranges run up to this many days past start_date
SmallSpan == 1
\* longest date range, in whole top-level windows
MaxFull == 1

\* a top-level window names DATE_STEP_DAYS + 1 calendar days
WindowLength == DATE_STEP_DAYS + 1

\* finish_date - start_date, in days: none, short, and around whole windows
CrawlSpans ==
    (-1 .. SmallSpan)
    \cup {k * WindowLength + j : k \in 1 .. MaxFull, j \in -2 .. 1}

\* days on which repositories were created
CrawlHotDays == {0, 1, WindowLength}

Init ==
    /\ start_date = Days(0)
    /\ finish_date \in {start_date + Days(n) : n \in CrawlSpans}
    /\ dayCount \in [CrawlHotDays -> DayCounts]
    /\ catalog = {TaggedRepo}
    /\ pc = "loop"
    /\ current_start = start_date /\ current_end = start_date
    /\ stack = <<>>
    /\ csv_open = TRUE
    /\ InitRest

Next ==
    \/ CrawlNextWindow
    \/ SplitCount
    \/ SplitReturn
    \/ CrawlGotWindows
    \/ LeafCount
    \/ IterFirstPage
    \/ ProcessItem
    \/ IterNextPage
    \/ IterExhausted
    \/ WindowDone
    \/ CrawlFinish

Spec == Init /\ [][Next]_vars

\* a two-day run whose window is split in two leaves, over search results
\* that differ in name, branch and declared topics
InitItems ==
    /\ start_date = Days(0)
    /\ finish_date = Days(1)
    /\ dayCount = [d \in 0 .. 1 |-> IF d = 0 THEN 650 ELSE 450]
    /\ catalog = Repos
    /\ pc = "loop"
    /\ current_start = start_date /\ current_end = start_date
    /\ stack = <<>>
    /\ csv_open = TRUE
    /\ InitRest

SpecItems == InitItems /\ [][Next]_vars

(***************************************************************************)
(* One GET of search_count through the session's adapter: Retry decides,    *)
(* response by response, whether the request is sent again.                 *)
(***************************************************************************)
\* the statuses the API may answer with
Statuses == {200, 403, 404} \cup status_forcelist

StatusResp(status) == [status |-> status, has_reset |-> FALSE, reset |-> 0, remaining |-> -1]

\* 403 with X-RateLimit-Reset: now + reset_in while quota remains
\* (X-RateLimit-Remaining: 57): forbidden, not throttled
ForbiddenResp(reset_in) ==
    [status |-> 403, has_reset |-> TRUE, reset |-> reset_in, remaining |-> 57]

\* the responses the API may give to the GET, headers included
GetResponses ==
    {StatusResp(status) : status \in Statuses}
    \cup {ThrottledResp(r) : r \in ResetOffsets}
    \cup {ForbiddenResp(r) : r \in ResetOffsets}

\* the budget is never used up
is_exhausted_never(total) == FALSE

\* Retry.is_exhausted: total has gone below zero
is_exhausted(total) == total < 0

\* Retry.get_backoff_time after n responses in a row that call for a retry:
\* nothing before the first retry, then backoff_factor * 2 ** (n - 1)
get_backoff_time(n) == IF n <= 1 THEN 0 ELSE BACKOFF_FACTOR * 2 ^ (n - 1)

\* line 83: one response to SESSION.get(BASE_SEARCH_URL, params), and lines
\* 84-86 once the adapter hands a response back
SessionGet ==
    /\ pc = "get"
    /\ \E resp \in GetResponses :
         LET status == resp.status
             history == Append(retry.history, status)
         IN  /\ last_req' = [kind |-> "count", q |-> Query(start_date, finish_date),
                             page |-> 0, idx |-> 0]
             /\ last_resp' = resp
             /\ last_sleep' = IF status \in status_forcelist THEN 0
                              ELSE rate_limit_sleep(resp)
             /\ IF status \in status_forcelist
                THEN IF is_exhausted(retry.total - 1)
                     THEN /\ retry' = [retry EXCEPT !.total = @ - 1, !.history = history]
                          /\ abort_cause' = "RetryError"
                          /\ pc' = "get_raised"
                     ELSE /\ retry' = [total |-> retry.total - 1, history |-> history,
                                       delays |-> Append(retry.delays,
                                                         get_backoff_time(Len(history)))]
                          /\ UNCHANGED <<pc, abort_cause>>
                ELSE /\ retry' = [retry EXCEPT !.history = history]
                     /\ IF RaisesForStatus(resp)
                        THEN abort_cause' = "HTTPError" /\ pc' = "get_raised"
                        ELSE abort_cause' = abort_cause /\ pc' = "get_returned"
    /\ UNCHANGED <<inputVars, loopVars, splitVars, countVars, sinkVars, it, yielded, searched, served>>

\* search_count(start, end) on some window of a few days
InitRetry ==
    /\ start_date = Days(0)
    /\ finish_date \in {Days(n) : n \in 0 .. MaxSpan}
    /\ dayCount = [d \in DateStr(start_date) .. DateStr(finish_date) |-> 0]
    /\ catalog = {TaggedRepo}
    /\ pc = "get"
    /\ current_start = start_date /\ current_end = finish_date
    /\ stack = <<>>
    /\ csv_open = FALSE
    /\ InitRest

SpecRetry == InitRetry /\ [][SessionGet]_vars

(***************************************************************************)
(* Pipeline.run of crawler_refactored_with_SRP.py                           *)
(* The variables are crawl's: current_start and current_end hold the        *)
(* generator's start and end, it the page loop's locals.                    *)
(***************************************************************************)
per_page == 100
delay_between_pages_sec == 10
step_days == 182
get_margin == 5

Chars_master == <<"m", "a", "s", "t", "e", "r">>

\* RepoDownloader._default_branch: item.get("default_branch") or "master"
default_branch(repo) ==
    IF repo.has_branch /\ repo.default_branch # <<>> THEN repo.default_branch
    ELSE Chars_master

\* RepoDownloader._zip_filename: item["full_name"].replace("/", "#") + ".zip"
zip_filename(repo) == Replace(repo.full_name, "/", "#") \o Chars_zip

\* the item is skipped whenever it does not declare the tag
Skipped_strict(topics) == "microservices" \notin topics

\* lines 265-268: if topics and "microservices" not in topics: continue
Skipped(topics) == topics # {} /\ "microservices" \notin topics

\* no response is taken for a rate-limit hit: every 403 is raised
get_throttled_never(resp) == FALSE

\* GitHubSearchClient._get, lines 90-92: the response is a rate-limit hit
get_throttled(resp) ==
    resp.status = 403 /\ resp.remaining >= 0 /\ resp.remaining = 0

\* lines 93-94: sleep_for = max(0, reset - now + 5), reset read as 0 when
\* the header is missing
get_sleep_for(resp) == IF resp.has_reset THEN Max2(0, resp.reset + get_margin) ELSE 0

\* one turn of _get's loop
get_send(req, resp) ==
    /\ last_req' = req
    /\ last_resp' = resp
    /\ last_sleep' = IF get_throttled(resp) THEN get_sleep_for(resp) ELSE 0
    /\ retry' = retry

\* an exception leaves run through its finally clause
run_raise(cause) ==
    /\ abort_cause' = cause
    /\ csv_open' = FALSE
    /\ pc' = "p_aborted"

\* the generator's next period starts on the day the one before ends on
windows_start_same_day(end) == end

\* DateRanges.windows, line 67: start = end + timedelta(days=1)
windows_start(end) == end + Days(1)

\* lines 64 and 68: end = min(start + self.step, self.finish)
windows_end(start) == Min2(start + Days(step_days), finish_date)

\* line 66: the period the generator yields, (start, min(end, self.finish))
period == <<current_start, Min2(current_end, finish_date)>>

\* lines 242-243: fs, fe
period_query == Query(period[1], period[2])

\* DateRanges.windows, lines 65-66, and run, lines 239-243: the generator
\* yields the next period
run_next_period ==
    /\ pc = "p_windows"
    /\ current_start <= finish_date
    /\ pc' = "p_count"
    /\ yielded' = Append(yielded, 0)
    /\ UNCHANGED <<inputVars, abort_cause, loopVars, splitVars, countVars, sinkVars,
                   it, searched, served, httpVars>>

\* lines 246-251: search_total_count through _get, pages, the counters
run_total_count ==
    /\ pc = "p_count"
    /\ \E resp \in Responses :
         /\ get_send([kind |-> "count", q |-> period_query, page |-> 1, idx |-> 0], resp)
         /\ IF get_throttled(resp)
            THEN UNCHANGED <<pc, abort_cause, csv_open, it, period_downloaded, period_failed>>
            ELSE IF RaisesForStatus(resp)
            THEN run_raise("HTTPError") /\ UNCHANGED <<it, period_downloaded, period_failed>>
            ELSE /\ it' = Iter(period_query,
                               CeilDiv(TotalCount(period_query), per_page), 0, <<>>, 0, <<>>)
                 /\ period_downloaded' = 0
                 /\ period_failed' = 0
                 /\ pc' = "p_page"
                 /\ UNCHANGED <<abort_cause, csv_open>>
    /\ UNCHANGED <<inputVars, loopVars, splitVars, page_count_estimate, total_downloaded,
                   total_failed, rows, summary_rows, xlsx_written, yielded, searched, served>>

\* lines 253-255: the next page of the period, through _get
run_search_page ==
    /\ pc = "p_page" /\ it.page < it.pages
    /\ \E resp \in Responses :
         /\ get_send([kind |-> "page", q |-> it.q, page |-> it.page + 1, idx |-> 0], resp)
         /\ IF get_throttled(resp)
            THEN UNCHANGED <<pc, abort_cause, csv_open, it, served>>
            ELSE IF RaisesForStatus(resp)
            THEN run_raise("HTTPError") /\ UNCHANGED <<it, served>>
            ELSE \E items \in PagesOfItems(it.q, it.page + 1) :
                   /\ it' = Iter(it.q, it.pages, it.page + 1, items, it.delay,
                               Append(it.requested, it.page + 1))
                   /\ served' = served + Len(items)
                   /\ pc' = "p_items"
                   /\ UNCHANGED <<abort_cause, csv_open>>
    /\ UNCHANGED <<inputVars, loopVars, splitVars, countVars, rows, summary_rows,
                   xlsx_written, yielded, searched>>

\* the fields logged for an item, and the archive written for it
run_row(item, status) ==
    [item |-> item, status |-> status,
     default_branch |-> default_branch(item.repo),
     topics |-> Topics(item.repo),
     zip_name |-> zip_filename(item.repo)]

\* lines 258-278: one turn of the item loop; download_zip (lines 163-175)
\* turns every failure into a status
run_item ==
    /\ pc = "p_items" /\ it.items # <<>>
    /\ Yield
    /\ LET item == Item(it.q, it.page, it.idx + 1, Head(it.items))
       IN  IF ~item.repo.has_keys
           THEN /\ run_raise("KeyError")
                /\ UNCHANGED <<httpVars, rows, period_downloaded, period_failed>>
           ELSE /\ UNCHANGED <<pc, abort_cause, csv_open>>
                /\ IF Skipped(Topics(item.repo))
                   THEN UNCHANGED <<httpVars, rows, period_downloaded, period_failed>>
                   ELSE \E resp \in Responses :
                          /\ last_req' = [kind |-> "zip", q |-> it.q, page |-> it.page,
                                          idx |-> it.idx + 1]
                          /\ last_resp' = resp
                          /\ last_sleep' = 0
                          /\ retry' = retry
                          /\ IF RaisesForStatus(resp)
                             THEN /\ period_failed' = period_failed + 1
                                  /\ rows' = Append(rows, run_row(item, "error"))
                                  /\ UNCHANGED period_downloaded
                             ELSE /\ period_downloaded' = period_downloaded + 1
                                  /\ rows' = Append(rows, run_row(item, "downloaded"))
                                  /\ UNCHANGED period_failed
    /\ UNCHANGED <<inputVars, loopVars, splitVars, page_count_estimate,
                   total_downloaded, total_failed, summary_rows, xlsx_written, served>>

\* lines 281-283: the page's items are done; sleep if a page follows
run_page_done ==
    /\ pc = "p_items" /\ it.items = <<>>
    /\ it' = [it EXCEPT !.delay = IF it.page < it.pages THEN delay_between_pages_sec ELSE 0]
    /\ pc' = "p_page"
    /\ UNCHANGED <<inputVars, abort_cause, loopVars, splitVars, countVars, sinkVars,
                   yielded, searched, served, httpVars>>

\* line 285 and DateRanges.windows, lines 67-68: the period's summary row,
\* then the generator moves on
run_period_done ==
    /\ pc = "p_page" /\ it.page >= it.pages
    /\ summary_rows' = Append(summary_rows,
          [start |-> period_query[1], end |-> period_query[2],
           downloaded |-> period_downloaded, pages |-> it.pages,
           failed |-> period_failed])
    /\ current_start' = windows_start(current_end)
    /\ current_end' = windows_end(windows_start(current_end))
    /\ it' = NoIter
    /\ pc' = "p_windows"
    /\ UNCHANGED <<inputVars, abort_cause, windows, widx, splitVars, countVars, rows,
                   csv_open, xlsx_written, yielded, searched, served, httpVars>>

\* lines 290-294: the generator is exhausted; close the CSV, save the summary
run_finish ==
    /\ pc = "p_windows"
    /\ current_start > finish_date
    /\ csv_open' = FALSE
    /\ xlsx_written' = xlsx_written + 1
    /\ pc' = "p_done"
    /\ UNCHANGED <<inputVars, abort_cause, loopVars, splitVars, countVars, rows,
                   summary_rows, it, yielded, searched, served, httpVars>>

run ==
    \/ run_next_period
    \/ run_total_count
    \/ run_search_page
    \/ run_item
    \/ run_page_done
    \/ run_period_done
    \/ run_finish

\* Pipeline(cfg).run() over the two-day range and the search results of
\* InitItems; lines 63-64 set the generator's first period
InitPipeline ==
    /\ start_date = Days(0)
    /\ finish_date = Days(1)
    /\ dayCount = [d \in 0 .. 1 |-> IF d = 0 THEN 650 ELSE 450]
    /\ catalog = Repos
    /\ pc = "p_windows"
    /\ current_start = start_date
    /\ current_end = windows_end(start_date)
    /\ stack = <<>>
    /\ csv_open = TRUE
    /\ InitRest

\* Pipeline(cfg).run() over one day that holds two pages of results
InitGet ==
    /\ start_date = Days(0)
    /\ finish_date = Days(0)
    /\ dayCount = [d \in 0 .. 0 |-> 150]
    /\ catalog = {TaggedRepo}
    /\ pc = "p_windows"
    /\ current_start = start_date
    /\ current_end = windows_end(start_date)
    /\ stack = <<>>
    /\ csv_open = TRUE
    /\ InitRest

\* a turn of _get's loop whose response is no rate-limit hit
get_answered ==
    /\ run_total_count \/ run_search_page
    /\ ~get_throttled(last_resp')

\* the run goes on while it can, and an API that can answer a request
\* without throttling it does so in the end
SpecGet ==
    InitGet /\ [][run]_vars /\ WF_vars(run) /\ SF_vars(get_answered)

\* either variant over two days of results, some of them malformed
InitSink ==
    /\ start_date = Days(0)
    /\ finish_date = Days(1)
    /\ dayCount = [d \in 0 .. 1 |-> IF d = 0 THEN 650 ELSE 450]
    /\ catalog = {TaggedRepo, KeylessRepo}
    /\ \/ pc = "loop" /\ current_end = start_date
       \/ pc = "p_windows"
          /\ current_end = windows_end(start_date)
    /\ current_start = start_date
    /\ stack = <<>>
    /\ csv_open = TRUE
    /\ InitRest

\* either variant of the crawler, over the same range and results
InitVariants == InitItems \/ InitPipeline

NextVariants == Next \/ run

SpecVariants == InitVariants /\ [][NextVariants]_vars

SpecSink == InitSink /\ [][NextVariants]_vars

\* longest date range of the runs that compare the two variants' top-level
\* windows, in whole windows
MaxTopWindows == 2

\* finish - start, in days: none, short, and around whole windows
WindowSpans ==
    (-1 .. SmallSpan)
    \cup {k * WindowLength + j : k \in 1 .. MaxTopWindows, j \in -2 .. 1}

\* times of day of the two dates: midnight and noon
TimesOfDay == {0, TicksPerDay \div 2}

\* either variant over the same date range, of no window up to several
\* top-level windows, with results on the first two days
InitWindows ==
    /\ start_date \in {Days(0) + t : t \in TimesOfDay}
    /\ finish_date \in {Days(n) + t : n \in WindowSpans, t \in TimesOfDay}
    /\ dayCount = [d \in 0 .. 1 |-> IF d = 0 THEN 650 ELSE 450]
    /\ catalog = {TaggedRepo}
    /\ \/ pc = "loop" /\ current_end = start_date
       \/ pc = "p_windows" /\ current_end = windows_end(start_date)
    /\ current_start = start_date
    /\ stack = <<>>
    /\ csv_open = TRUE
    /\ InitRest

SpecWindows == InitWindows /\ [][NextVariants]_vars

(***************************************************************************)
(* Properties of the partitioner                                            *)
(***************************************************************************)
WindowDays(w) == QueryDays(Query(w.start, w.end))

SingleDay(w) == DateStr(w.start) = DateStr(w.end)

\* C1: when split_window_if_needed(W) returns, the days queried by the
\* returned windows are exactly the days of W, and no day is queried by
\* two of them.
C1_LosslessCover ==
    pc = "returned" =>
        /\ UNION {WindowDays(windows[i]) : i \in 1 .. Len(windows)}
              = WindowDays(Window(start_date, finish_date))
        /\ \A i, j \in 1 .. Len(windows) :
              i # j => WindowDays(windows[i]) \cap WindowDays(windows[j]) = {}

\* a call that split twice on the way and returned
C1_Witness ==
    /\ pc = "returned" /\ Len(windows) >= 3 /\ max_depth >= 2

\* C2: every returned window has a total count within the cap.
C2_LeavesWithinCap ==
    pc = "returned" =>
        \A i \in 1 .. Len(windows) :
            TotalCount(Query(windows[i].start, windows[i].end)) <= MAX_RESULTS_PER_QUERY

\* a window over the cap was split into leaves that hold results
C2_Witness ==
    /\ pc = "returned"
    /\ TotalCount(Query(start_date, finish_date)) > MAX_RESULTS_PER_QUERY
    /\ \E i \in 1 .. Len(windows) :
          TotalCount(Query(windows[i].start, windows[i].end)) > 0

\* C3: split_window_if_needed terminates for every window of at least one
\* day and every oracle: its recursion never runs into the recursion limit.
C3_Terminates ==
    finish_date - start_date >= Days(1) => abort_cause # "RecursionError"

\* C4: a single-day window whose count exceeds the cap is accepted as it
\* is: no frame of a single-day window ever makes a recursive call.
C4_SingleDayAccepted ==
    \A i \in 1 .. Len(stack) : SingleDay(stack[i]) => stack[i].phase = "count"

(***************************************************************************)
(* Properties of crawl                                                      *)
(***************************************************************************)
RECURSIVE SumSeq(_)
SumSeq(sq) == IF sq = <<>> THEN 0 ELSE sq[1] + SumSeq(Tail(sq))

\* a top-level window is being processed
InWindow == pc \in {"split", "leaf", "first_page", "items"}

\* rows of the sink with a status, written for items of a range of days
RowsOf(status, first, last) ==
    {i \in 1 .. Len(rows) :
        /\ rows[i].status = status
        /\ rows[i].item.q[1] >= first /\ rows[i].item.q[2] <= last}

\* C5: every yielded item produces exactly one row and increments exactly
\* one of the two window counters: the sink holds total_downloaded +
\* total_failed rows, one per yielded item, and each window's downloaded +
\* failed is the number of items its leaf windows' iterators yielded.
C5_OneRecordPerItem ==
    /\ Len(rows) = total_downloaded + total_failed
    /\ Len(rows) = SumSeq(yielded)
    /\ \A k \in 1 .. Len(summary_rows) :
          summary_rows[k].downloaded + summary_rows[k].failed = yielded[k]
    /\ pc \in {"leaf", "first_page", "items"} =>
          period_downloaded + period_failed = yielded[Len(yielded)]

\* a finished run whose two items took one counter each
C5_Witness ==
    /\ pc = "done" /\ Len(rows) = 2
    /\ total_downloaded = 1 /\ total_failed = 1

\* the step of the item loop: the generator hands out its next item
ItemStep == it.active /\ it'.active /\ it'.idx = it.idx + 1

\* C6: a failed archive download never aborts the run: it appends exactly
\* one "error" row for the item, increments the failed counters by one, and
\* the loop goes on with the rest of the page.
C6_DownloadFailureRecovered ==
    [][(ItemStep /\ RaisesForStatus(last_resp')) =>
          /\ pc' = "items" /\ abort_cause' = ""
          /\ rows' = Append(rows, Row(Item(it.q, it.page, it.idx + 1, Head(it.items)), "error"))
          /\ period_failed' = period_failed + 1
          /\ total_failed' = total_failed + 1
          /\ period_downloaded' = period_downloaded
          /\ total_downloaded' = total_downloaded
          /\ it'.items = Tail(it.items)]_vars

\* a failed download is followed by the download of the page's next item
C6_Witness ==
    /\ Len(rows) = 2
    /\ rows[1].status = "error" /\ rows[2].status = "downloaded"
    /\ rows[1].item.q = rows[2].item.q /\ rows[1].item.page = rows[2].item.page

\* C7: a throttling response (403, remaining 0) to any request neither ends
\* the run nor is recorded as a failed download: the request is sent again.
C7_ThrottleRetried ==
    Throttled(last_resp) =>
        /\ pc # "aborted"
        /\ last_req.kind = "zip" => rows[Len(rows)].status # "error"

\* the top-level windows so far, as the day pairs formatted into the summary
TopWindows ==
    [k \in 1 .. Len(summary_rows) |-> <<summary_rows[k].start, summary_rows[k].end>>]
    \o (IF InWindow THEN <<Query(current_start, current_end)>> ELSE <<>>)

RangeDays == DateStr(start_date) .. DateStr(finish_date)

\* C8: the first top-level window starts at start, each ends at
\* min(its start + DATE_STEP_DAYS, finish), each next one starts the day
\* after, and the loop stops exactly when current_start > finish: the windows
\* are in order, within the range, and cover each of its days once.
C8_TopLevelWindows ==
    start_date <= finish_date =>
        LET tw == TopWindows
        IN  /\ tw # <<>> => tw[1][1] = DateStr(start_date)
            /\ \A k \in 1 .. Len(tw) :
                  /\ tw[k][2] = Min2(tw[k][1] + DATE_STEP_DAYS, DateStr(finish_date))
                  /\ tw[k][1] <= tw[k][2]
                  /\ k > 1 => tw[k][1] = tw[k - 1][2] + 1
            /\ pc = "loop" => current_start =
                  (IF tw = <<>> THEN start_date ELSE Days(tw[Len(tw)][2] + 1))
            /\ pc = "done" =>
                  /\ current_start > finish_date
                  /\ tw[Len(tw)][2] = DateStr(finish_date)
                  /\ UNION {tw[k][1] .. tw[k][2] : k \in 1 .. Len(tw)} = RangeDays
                  /\ Len(tw) = CeilDiv(Cardinality(RangeDays), DATE_STEP_DAYS + 1)

\* a finished run of a full window followed by a clipped one
C8_Witness ==
    /\ pc = "done" /\ Len(summary_rows) = 2
    /\ summary_rows[1].end - summary_rows[1].start = DATE_STEP_DAYS
    /\ summary_rows[2].end - summary_rows[2].start = 1

\* position of an item in the run: its window's days, its page, its index
Before(a, b) ==
    \/ a.q[2] < b.q[1]
    \/ a.q = b.q /\ a.page < b.page
    \/ a.q = b.q /\ a.page = b.page /\ a.idx < b.idx

\* every day a window queries lies before every day another one queries
DaysBefore(v, w) ==
    \/ DateStr(v.start) > DateStr(v.end)
    \/ DateStr(w.start) > DateStr(w.end)
    \/ DateStr(v.end) < DateStr(w.start)

\* C9: everything is processed in chronological order: leaf windows by
\* date, pages ascending, items as the API sent them; the sink's rows and
\* the summary rows are in that order.
C9_ChronologicalOrder ==
    /\ \A i, j \in 1 .. Len(rows) : i < j => Before(rows[i].item, rows[j].item)
    /\ \A i, j \in 1 .. Len(summary_rows) :
          i < j => summary_rows[i].end < summary_rows[j].start
    /\ pc \in {"leaf", "first_page", "items"} =>
          \A i, j \in 1 .. Len(windows) : i < j => DaysBefore(windows[i], windows[j])

\* two rows for items of two leaf windows of one split top-level window
C9_Witness ==
    /\ Len(rows) = 2 /\ summary_rows = <<>>
    /\ rows[1].item.q # rows[2].item.q

\* C10: a completed run holds one summary row per top-level window, with
\* that window's start and end and the downloaded / failed counts of all
\* its leaf windows, and the summary is saved once, after the last window.
C10_SummaryPerTopWindow ==
    /\ pc # "done" => xlsx_written = 0
    /\ pc = "done" =>
          /\ xlsx_written = 1
          /\ Len(summary_rows) = CeilDiv(Cardinality(RangeDays), DATE_STEP_DAYS + 1)
          /\ \A k \in 1 .. Len(summary_rows) :
                LET r == summary_rows[k]
                IN  /\ r.start = DateStr(start_date) + (k - 1) * (DATE_STEP_DAYS + 1)
                    /\ r.end = Min2(r.start + DATE_STEP_DAYS, DateStr(finish_date))
                    /\ r.downloaded = Cardinality(RowsOf("downloaded", r.start, r.end))
                    /\ r.failed = Cardinality(RowsOf("error", r.start, r.end))

\* a completed run over two top-level windows with an item in each
C10_Witness ==
    /\ pc = "done" /\ Len(summary_rows) = 2
    /\ summary_rows[1].downloaded + summary_rows[1].failed = 1
    /\ summary_rows[2].downloaded + summary_rows[2].failed = 1

(***************************************************************************)
(* Properties of the archive's name and of the per-item policy              *)
(***************************************************************************)
\* the resolved branch of a row is the item's branch, or "main" when the
\* item has none
ResolvedBranch(row) ==
    IF row.item.repo.has_branch /\ row.item.repo.default_branch # <<>>
    THEN row.item.repo.default_branch
    ELSE <<"m", "a", "i", "n">>

SameRepoAndBranch(r1, r2) ==
    /\ r1.item.repo.full_name = r2.item.repo.full_name
    /\ ResolvedBranch(r1) = ResolvedBranch(r2)

\* C11: the archive's file name is a function of the item's full name and
\* resolved default branch only: two rows of the same full name and
\* resolved branch, whatever their window, page, position, or the
\* downloads before them, carry the same name, and that name ends in
\* "@", the resolved branch and ".zip"
C11_ZipNameDeterministic ==
    \A i, j \in 1 .. Len(rows) :
        /\ rows[i].default_branch = ResolvedBranch(rows[i])
        /\ Len(rows[i].zip_name) =
               Len(rows[i].item.repo.full_name) + 1 + Len(ResolvedBranch(rows[i])) + 4
        /\ SubSeq(rows[i].zip_name, Len(rows[i].item.repo.full_name) + 1,
                  Len(rows[i].zip_name)) =
               <<"@">> \o ResolvedBranch(rows[i]) \o <<".", "z", "i", "p">>
        /\ SameRepoAndBranch(rows[i], rows[j]) => rows[i].zip_name = rows[j].zip_name

\* the same repository fetched from two leaf windows, once with its branch
\* named and once with the branch missing from the item
C11_Witness ==
    \E i, j \in 1 .. Len(rows) :
        /\ i # j
        /\ SameRepoAndBranch(rows[i], rows[j])
        /\ rows[i].item.q # rows[j].item.q
        /\ rows[i].item.repo.has_branch /\ ~rows[j].item.repo.has_branch

\* the item the generator hands out in an ItemStep, and the request that
\* fetches its archive
NextRepo == Head(it.items)

ZipRequest == [kind |-> "zip", q |-> it.q, page |-> it.page, idx |-> it.idx + 1]

\* the step sends the item's archive request and appends the item's row,
\* "downloaded" exactly when the response is no error
FetchedAndRecorded ==
    /\ last_req' = ZipRequest
    /\ Len(rows') = Len(rows) + 1
    /\ rows'[Len(rows')].item.repo = NextRepo
    /\ rows'[Len(rows')].item.idx = it.idx + 1
    /\ rows'[Len(rows')].status = IF last_resp'.status >= 400 THEN "error" ELSE "downloaded"

\* the item carries no topic data: the list is missing or empty
NoTopicData(repo) == ~repo.has_topics \/ repo.topics = {}

\* C12: in crawl and in Pipeline.run alike, an item of the tag-filtered
\* search whose topic list is missing or empty is not skipped: its archive
\* is requested and its row is written.
C12_MissingTopicsStillDownloaded ==
    [][(ItemStep /\ NoTopicData(NextRepo)) => FetchedAndRecorded]_vars

\* Pipeline.run has downloaded an item without a topic list and an item
\* with an empty one
C12_Witness ==
    /\ pc = "p_items" /\ Len(rows) = 2
    /\ ~rows[1].item.repo.has_topics /\ rows[1].status = "downloaded"
    /\ rows[2].item.repo.has_topics /\ rows[2].item.repo.topics = {}
    /\ rows[2].status = "downloaded"

\* C13, as claimed: crawl downloads an item only if its declared topics
\* contain "microservices".
C13_OnlyTaggedDownloaded ==
    \A i \in 1 .. Len(rows) :
        rows[i].status = "downloaded" =>
            /\ rows[i].item.repo.has_topics
            /\ "microservices" \in rows[i].item.repo.topics

\* C13, amended: crawl makes no topic check: every item the search yields
\* is passed to the archive fetcher whatever topics it declares, and the
\* declared topics are only recorded in the item's row.
C13_EveryItemFetched ==
    [][ItemStep =>
          /\ FetchedAndRecorded
          /\ rows'[Len(rows')].topics =
                (IF NextRepo.has_topics THEN NextRepo.topics ELSE {})]_vars

\* crawl has downloaded an item that declares topics, none of them the tag
C13_Witness ==
    \E i \in 1 .. Len(rows) :
        /\ rows[i].status = "downloaded"
        /\ rows[i].topics # {} /\ "microservices" \notin rows[i].topics

(***************************************************************************)
(* The scenario of the window 2020-01-01 .. 2020-06-30 holding 1500 results *)
(***************************************************************************)
\* the outermost call has bisected and is inside its left or right call
InLeftHalf == Len(stack) >= 2 /\ stack[1].phase = "left"
InRightHalf == Len(stack) >= 2 /\ stack[1].phase = "right"

\* the returned leaves are within the cap and cover the window's days once
LeavesFitAndCover ==
    pc = "returned" =>
        /\ \A i \in 1 .. Len(windows) :
              TotalCount(Query(windows[i].start, windows[i].end)) <= 1000
        /\ \A d \in DateStr(start_date) .. DateStr(finish_date) :
              Cardinality({i \in 1 .. Len(windows) : d \in WindowDays(windows[i])}) = 1

\* C14, as claimed: the window is bisected so that the left half ends on
\* 2020-03-30 and the right half starts on 2020-03-31; the leaves are
\* within the cap and cover every day once.
C14_BisectedAtMarch30 ==
    /\ InLeftHalf => CalendarDate(DateStr(stack[2].end)) = <<3, 30>>
    /\ InRightHalf => CalendarDate(DateStr(stack[2].start)) = <<3, 31>>
    /\ LeavesFitAndCover

\* C14, amended: the midpoint is 2020-01-01 plus 90.5 days, noon of
\* 2020-03-31: the left half is queried as 2020-01-01..2020-03-31 and the
\* right half as 2020-04-01..2020-06-30; the leaves are within the cap and
\* cover every day once.
C14_BisectedAtMarch31 ==
    /\ InLeftHalf =>
          /\ CalendarDate(DateStr(stack[2].start)) = <<1, 1>>
          /\ CalendarDate(DateStr(stack[2].end)) = <<3, 31>>
    /\ InRightHalf =>
          /\ CalendarDate(DateStr(stack[2].start)) = <<4, 1>>
          /\ CalendarDate(DateStr(stack[2].end)) = <<6, 30>>
    /\ LeavesFitAndCover

\* the call returned after splitting at the middle: a leaf ends on day 90
C14_Witness ==
    /\ pc = "returned" /\ Len(windows) >= 2
    /\ TotalCount(Query(start_date, finish_date)) = 1500
    /\ \E i \in 1 .. Len(windows) : DateStr(windows[i].end) = 90

(***************************************************************************)
(* Properties of a failing search request                                   *)
(***************************************************************************)
\* the last request was a count or page query and its response a
\* non-throttling error, retries included
SearchFailed ==
    /\ last_req.kind \in {"count", "page"}
    /\ last_resp.status >= 400 /\ ~Throttled(last_resp)

\* C15: a fatal failure of a search request aborts the whole crawl at once:
\* the failing step ends the run with the sink closed, the rows and summary
\* rows as they were, no summary row for the failing window and the summary
\* never written; nothing is processed after it.
C15_SearchFailureAborts ==
    [][/\ pc # "aborted"
       /\ SearchFailed' =>
             /\ pc' = "aborted" /\ abort_cause' = "HTTPError"
             /\ ~csv_open'
             /\ rows' = rows
             /\ summary_rows' = summary_rows
             /\ \A k \in 1 .. Len(summary_rows') :
                   summary_rows'[k].end < DateStr(current_start')
             /\ xlsx_written' = 0]_vars

\* the second page query of the second top-level window failed after an
\* item was recorded and a window summarised
C15_Witness ==
    /\ pc = "aborted" /\ SearchFailed
    /\ last_req.kind = "page"
    /\ Len(summary_rows) = 1 /\ Len(rows) >= 1
    /\ xlsx_written = 0

(***************************************************************************)
(* Properties of the windows the partitioner works on                       *)
(***************************************************************************)
\* the windows of the calls in progress and the windows returned so far
WindowsInHand ==
    {Window(stack[i].start, stack[i].end) : i \in 1 .. Len(stack)}
    \cup {windows[i] : i \in 1 .. Len(windows)}
    \cup (IF retval.has THEN {retval.val[i] : i \in 1 .. Len(retval.val)} ELSE {})

\* C16: every window handed to a call of the partitioner or returned by it
\* as a leaf has start <= end as the pair of calendar dates formatted into
\* the query: the right half of a split is never an inverted range.
C16_NoInvertedWindow ==
    \A w \in WindowsInHand : DateStr(w.start) <= DateStr(w.end)

\* no day of the window is over the cap on its own
NoDayOverCap == \A d \in DOMAIN dayCount : dayCount[d] <= MAX_RESULTS_PER_QUERY

\* C17: each recursive call is made on a strictly smaller window: the days
\* its query names are a strict subset of the days its caller's query
\* names, so no call issues its caller's query again.
C17_StrictlySmaller ==
    NoDayOverCap =>
        \A i \in 1 .. Len(stack) - 1 :
            /\ WindowDays(stack[i + 1]) \subseteq WindowDays(stack[i])
            /\ WindowDays(stack[i + 1]) # WindowDays(stack[i])

(***************************************************************************)
(* Properties of iter_search_pages                                          *)
(***************************************************************************)
\* rows written for items of the page the generator is on
RowsOfPage ==
    {i \in 1 .. Len(rows) : rows[i].item.q = it.q /\ rows[i].item.page = it.page}

\* C18: for a first response reporting T results, iter_search_pages works
\* on ceil(min(T, 1000) / 100) pages, at most 10: its first request is page
\* 1, then one request per page 2..pages in ascending order and none above
\* pages; every item the API put on a fetched page is yielded once, in
\* order, none dropped.
C18_PagedIteration ==
    it.active =>
        /\ it.pages * 100 >= Min2(TotalCount(it.q), 1000)
        /\ (it.pages - 1) * 100 < Max2(Min2(TotalCount(it.q), 1000), 1)
        /\ it.pages <= 10
        /\ it.requested = [k \in 1 .. it.page |-> k]
        /\ it.page <= Max2(it.pages, 1)
        /\ served = Len(rows) + Len(it.items)
        /\ Cardinality(RowsOfPage) = it.idx
        /\ \A i \in RowsOfPage : rows[i].item.idx \in 1 .. it.idx

\* the generator reached the last of seven pages, for 650 results, after
\* yielding an item of page 1 and an item of page 2
C18_Witness ==
    /\ it.active /\ TotalCount(it.q) = 650
    /\ it.pages = 7 /\ it.page = 7
    /\ Len(rows) = 2
    /\ rows[1].item.page = 1 /\ rows[2].item.page = 2

\* C19: within a window, DELAY_BETWEEN_PAGES is slept between every two
\* consecutive page requests: the request of each page from the second on
\* comes after the delay.
C19_DelayBetweenPages ==
    (it.active /\ it.page >= 2) => it.delay = DELAY_BETWEEN_PAGES

(***************************************************************************)
(* Properties of the session's retries                                      *)
(***************************************************************************)
\* the statuses that call for a retry of a GET
Retryable == {429, 500, 502, 503, 504}

C21_SleepOnlyWhenQuotaExhausted ==
    /\ last_sleep >= 0
    /\ last_sleep > 0 => (last_resp.status = 403 /\ last_resp.remaining = 0)
    /\ (last_resp.status >= 400 /\ last_resp.status < 500 /\ last_resp.remaining # 0
           /\ last_resp.status # 429)
          => (last_sleep = 0 /\ pc = "get_raised")

(***************************************************************************)
(* Properties of GitHubSearchClient._get                                    *)
(***************************************************************************)
\* the run is inside _get: the next step is a response to its request
InGet == pc = "p_count" \/ (pc = "p_page" /\ it.page < it.pages)

\* the page _get is asking for, 0 for the count query
GetPage == IF pc = "p_count" THEN 0 ELSE it.page + 1

\* C22: _get never gives up because of throttling: a throttled response
\* (403, remaining quota 0) leaves it in its loop, about to send the same
\* request again, however many came before, so under an API that throttles
\* forever it never returns; and when the API does answer without
\* throttling in the end, _get returns or raises.
C22_GetRetriesUntilAnswered ==
    /\ [][(InGet /\ last_resp'.status = 403 /\ last_resp'.remaining = 0) =>
             /\ InGet' /\ GetPage' = GetPage
             /\ pc' = pc /\ it' = it
             /\ abort_cause' = "" /\ csv_open'
             /\ last_sleep' >= 0]_vars
    /\ \A p \in 0 .. 2 : (InGet /\ GetPage = p) ~> ~(InGet /\ GetPage = p)

\* the query of page 2 has just been throttled: _get has slept and is
\* about to send it again
C22_Witness ==
    /\ InGet /\ GetPage = 2
    /\ last_req.kind = "page" /\ last_req.page = 2
    /\ last_resp.status = 403 /\ last_resp.remaining = 0
    /\ last_sleep = 35

(***************************************************************************)
(* Properties of the record sink                                            *)
(***************************************************************************)
\* crawl or Pipeline.run has returned or raised
RunOver == pc \in {"done", "aborted", "p_done", "p_aborted"}

\* C23: the record sink is closed on every exit path of crawl and of
\* Pipeline.run: normal completion, an exception of a search request, an
\* exception raised while an item is processed outside the download's try
\* block; it stays open until then, and no row is written once it is closed.
C23_SinkClosedOnEveryExit ==
    /\ [](RunOver <=> ~csv_open)
    /\ [][~csv_open => (rows' = rows /\ ~csv_open')]_vars

\* crawl was ended by a malformed item after a row was written: the sink
\* is closed
C23_Witness ==
    /\ pc = "aborted" /\ abort_cause = "KeyError"
    /\ Len(rows) >= 1
    /\ ~csv_open

(***************************************************************************)
(* Properties of the leaf windows of a whole run                            *)
(***************************************************************************)
\* positions of the leaf windows handed to iter_search_pages so far
LeafPositions ==
    UNION {{<<k, i>> : i \in 1 .. Len(searched[k])} : k \in 1 .. Len(searched)}

LeafQuery(pos) == searched[pos[1]][pos[2]].q

\* the two queries name no calendar day in common
DisjointDays(q1, q2) ==
    \/ q1[1] > q1[2]
    \/ q2[1] > q2[2]
    \/ q1[2] < q2[1]
    \/ q2[2] < q1[1]

\* the step hands one more leaf window to iter_search_pages
LeafHandedOver ==
    /\ Len(searched') = Len(searched) /\ searched # <<>>
    /\ Len(searched'[Len(searched)]) = Len(searched[Len(searched)]) + 1

\* the leaf window a LeafHandedOver step adds
NewLeafQuery == searched'[Len(searched)][Len(searched'[Len(searched)])].q

\* C24: over a whole run of crawl, the leaf windows handed to
\* iter_search_pages are pairwise disjoint in calendar days (each one
\* names no day of any leaf window handed over before it), and when the
\* run completes they cover every day of start..finish: no day is
\* searched by two leaf windows.
C24_LeavesPartitionTheRange ==
    /\ [][LeafHandedOver =>
             \A pos \in LeafPositions : DisjointDays(LeafQuery(pos), NewLeafQuery)]_vars
    /\ [](pc = "done" =>
             \A d \in RangeDays :
                 \E pos \in LeafPositions : d \in QueryDays(LeafQuery(pos)))

\* a finished run over two top-level windows, the first split in leaves
C24_Witness ==
    /\ pc = "done" /\ Len(searched) = 2
    /\ Len(searched[1]) >= 2 /\ Len(searched[2]) >= 1

\* C25: the file name built from an item's full name and branch contains
\* no path separator: every '/' of the full name and of the branch is
\* replaced, so the archive lands directly in the output directory.
C25_NoPathSeparatorInName ==
    \A i \in 1 .. Len(rows) :
        \A k \in 1 .. Len(rows[i].zip_name) : rows[i].zip_name[k] # "/"

\* page requests iter_search_pages sent over a sequence of leaf windows
RECURSIVE PageRequests(_)
PageRequests(leaves) ==
    IF leaves = <<>> THEN 0 ELSE Head(leaves).requests + PageRequests(Tail(leaves))

\* the leaf windows of a sequence whose query has no result
RECURSIVE EmptyLeaves(_)
EmptyLeaves(leaves) ==
    IF leaves = <<>> THEN 0
    ELSE (IF TotalCount(Head(leaves).q) = 0 THEN 1 ELSE 0) + EmptyLeaves(Tail(leaves))

\* C26: the pages figure of a top-level window's summary row equals the
\* number of page requests iter_search_pages issued over all the leaf
\* windows of that window.
C26_PagesEqualPageRequests ==
    \A k \in 1 .. Len(summary_rows) :
        summary_rows[k].pages = PageRequests(searched[k])

\* C26: the pages figure of a top-level window's summary row is the
\* number of result pages of its leaf windows: the page requests
\* iter_search_pages issued, less one for every leaf window without
\* results, whose single request finds no page.
C26_PagesAreResultPages ==
    \A k \in 1 .. Len(summary_rows) :
        /\ summary_rows[k].pages = PageRequests(searched[k]) - EmptyLeaves(searched[k])
        /\ \A i \in 1 .. Len(searched[k]) :
              /\ searched[k][i].requests >= 1
              /\ searched[k][i].requests * PER_PAGE >= TotalCount(searched[k][i].q)
              /\ (searched[k][i].requests - 1) * PER_PAGE < TotalCount(searched[k][i].q)
                    \/ TotalCount(searched[k][i].q) = 0

\* two summary rows: one window with several pages in several leaves,
\* one with a leaf without results
C26_Witness ==
    /\ Len(summary_rows) = 2
    /\ \E k \in 1 .. 2 : Len(searched[k]) >= 2 /\ summary_rows[k].pages >= 7
    /\ \E k \in 1 .. 2 : EmptyLeaves(searched[k]) >= 1

\* crawl's while loop as a function of current_start: the (start, end)
\* pairs of lines 165-166 and 212, in order
RECURSIVE CrawlWindows(_)
CrawlWindows(cs) ==
    IF cs <= finish_date
    THEN <<<<cs, CurrentEnd(cs)>>>> \o CrawlWindows(NextStart(CurrentEnd(cs)))
    ELSE <<>>

\* Pipeline.run holds a period of DateRanges.windows
InPeriod == pc \in {"p_count", "p_page", "p_items"}

\* crawl holds a top-level window whose partition is back
InTopWindow == pc \in {"leaf", "first_page", "items"}

\* C27: DateRanges(start, finish).windows() yields the same sequence of
\* (start, end) top-level windows as the while loop of crawl: the k-th
\* period is the k-th window, there are as many, and start = finish
\* gives the one window (start, start), start > finish none.
C27_SameTopLevelWindows ==
    /\ InPeriod =>
          /\ Len(yielded) <= Len(CrawlWindows(start_date))
          /\ period = CrawlWindows(start_date)[Len(yielded)]
    /\ pc = "p_done" => Len(yielded) = Len(CrawlWindows(start_date))
    /\ InTopWindow =>
          /\ Len(yielded) <= Len(CrawlWindows(start_date))
          /\ <<current_start, current_end>> = CrawlWindows(start_date)[Len(yielded)]
    /\ pc = "done" => Len(yielded) = Len(CrawlWindows(start_date))
    /\ start_date = finish_date =>
          CrawlWindows(start_date) = <<<<start_date, start_date>>>>
    /\ start_date > finish_date => yielded = <<>>

\* the generator is exhausted after three periods, the last one cut at a
\* finish date that is not at midnight
C27_Witness ==
    /\ pc = "p_done" /\ Len(yielded) = 3
    /\ finish_date % TicksPerDay # 0
    /\ summary_rows[3].start <= summary_rows[3].end

====
